---- MODULE Spec2Model ----
(***************************************************************************)
(* LearnBox backend/accounts: the token lifecycle of utils.py (issue,      *)
(* expiry, single use), registration and login of serializers.py/views.py, *)
(* over the relational store they share.                                   *)
(*                                                                         *)
(* Time is counted in minutes.  Token values are compared as the strings   *)
(* the code compares; str(int) is injective, so a 6-digit code is kept as  *)
(* its integer.                                                            *)
(***************************************************************************)
EXTENDS Integers, Sequences, FiniteSets

\* ------------------------------------------------------------------ bounds
\* how many distinct 6-digit values the model draws codes and tokens from
NumValues == 2
\* how many distinct uuid4 strings the model draws reset tokens from
NumUuids == 2
\* token rows (both tables together) the model lets the store hold
MaxRows == 2
\* the clock stops advancing here
MaxTime == 60
\* the clock advances by this much at a time
ClockStep == 15

\* ------------------------------------------------------- program constants
\* random.randint(100000, 999999)
CodeMin == 100000
CodeMax == 999999
\* timedelta(minutes=15)
EMAIL_EXPIRY_MINUTES == 15
\* timedelta(hours=1)
RESET_EXPIRY_HOURS == 1
HTTP_200_OK == 200
HTTP_201_CREATED == 201
HTTP_400_BAD_REQUEST == 400

Min(a, b) == IF a < b THEN a ELSE b

\* the 6-digit values in play: a bounded sample of CodeMin..CodeMax
Values == CodeMin..Min(CodeMax, CodeMin + NumValues - 1)
\* the uuid4 strings in play
Uuids == 1..NumUuids
\* no object: Python's None where an id or a row is expected
None == 0

VARIABLES
    users,        \* the accounts_user table: a sequence of rows, id = index
    emailTokens,  \* the EmailVerificationToken table
    resetTokens,  \* the PasswordResetToken table
    now,          \* timezone.now(), in minutes
    resp,         \* what the last call returned or raised
    pc,           \* per request worker: where its handler stands
    local         \* per request worker: the handler's local variables

vars == <<users, emailTokens, resetTokens, now, resp, pc, local>>

Workers == {1, 2}

\* ---------------------------------------------------------------- the store
\* Django's make_password: what is stored is a hash, never the plaintext
make_password(p) == <<"pbkdf2_sha256", p>>
check_password(p, h) == h = make_password(p)

\* UserManager.normalize_email, called by create_user: the domain part is
\* lowercased, the local part is kept
LowerDomain(d) == IF d = "EXAMPLE.COM" THEN "example.com" ELSE d
normalize_email(e) == [local |-> e.local, domain |-> LowerDomain(e.domain)]

\* a row of the User table (AbstractUser plus email unique, firebase_uid)
UserRow(username, email, password, firebase_uid) ==
    [username |-> username, email |-> normalize_email(email),
     password |-> make_password(password), is_active |-> TRUE,
     firebase_uid |-> firebase_uid]

AliceEmail == [local |-> "alice", domain |-> "example.com"]
BobEmail == [local |-> "bob", domain |-> "example.com"]

\* the store of the token specifications: alice has registered
RegisteredUsers == <<UserRow("alice", AliceEmail, "pw1", None)>>

\* mutant: the email code given the reset token's lifetime
EmailExpiresAt_Hour(t) == t + RESET_EXPIRY_HOURS * 60

\* timezone.now() + timedelta(minutes=15)
EmailExpiresAt(t) == t + EMAIL_EXPIRY_MINUTES
\* timezone.now() + timedelta(hours=1)
ResetExpiresAt(t) == t + RESET_EXPIRY_HOURS * 60

\* EmailVerificationToken / PasswordResetToken .is_valid(): the model classes
\* are not in the source tree; the data model's invariant stands in:
\* a token is valid iff now < expires_at and it is not used
is_valid(row, t) == ~row.is_used /\ t < row.expires_at

\* Model.objects.get(token=v): the rows whose token column equals v
EmailLookup(v) == {i \in DOMAIN emailTokens : emailTokens[i].token = v}
ResetLookup(v) == {i \in DOMAIN resetTokens : resetTokens[i].token = v}

\* ------------------------------------------------------------- responses
NoResp == [op |-> "none", arg |-> None, ok |-> FALSE, msg |-> "",
           user |-> None, row |-> None, raised |-> FALSE, verified |-> FALSE]

Returned(op, arg, ok, msg, user, row, verified) ==
    [op |-> op, arg |-> arg, ok |-> ok, msg |-> msg, user |-> user,
     row |-> row, raised |-> FALSE, verified |-> verified]

Raised(op, arg, msg) ==
    [op |-> op, arg |-> arg, ok |-> FALSE, msg |-> msg, user |-> None,
     row |-> None, raised |-> TRUE, verified |-> FALSE]

RowCount == Len(emailTokens) + Len(resetTokens)

\* ------------------------------------------------------------- issuing
\* mutant: the create rolled back with the failed send
send_verification_email_Rollback(w, user, code, tok, mail_ok) ==
    /\ pc[w] = "idle"
    /\ RowCount < MaxRows
    /\ EmailLookup(tok) = {}
    /\ emailTokens' =
          IF mail_ok
          THEN Append(emailTokens,
                 [user |-> user, code |-> code, token |-> tok,
                  created_at |-> now, expires_at |-> EmailExpiresAt(now),
                  is_used |-> FALSE])
          ELSE emailTokens
    /\ resp' = [resp EXCEPT ![w] =
          IF mail_ok
          THEN Returned("send_verification_email", code, TRUE, "", user,
                        Len(emailTokens) + 1, FALSE)
          ELSE Raised("send_verification_email", code, "send_mail failed")]
    /\ UNCHANGED <<users, resetTokens, now, pc, local>>

\* send_verification_email(user): create the row (code=code, expires_at),
\* then send_mail; a failing send_mail is printed and re-raised, and the row
\* stays (the create is committed on its own).  The token column is not set
\* by the code: it takes the model's default, a value no other row holds.
send_verification_email(w, user, code, tok, mail_ok) ==
    /\ pc[w] = "idle"
    /\ RowCount < MaxRows
    /\ EmailLookup(tok) = {}
    /\ emailTokens' = Append(emailTokens,
          [user |-> user, code |-> code, token |-> tok, created_at |-> now,
           expires_at |-> EmailExpiresAt(now), is_used |-> FALSE])
    /\ resp' = [resp EXCEPT ![w] =
          IF mail_ok
          THEN Returned("send_verification_email", code, TRUE, "", user,
                        Len(emailTokens) + 1, FALSE)
          ELSE Raised("send_verification_email", code, "send_mail failed")]
    /\ UNCHANGED <<users, resetTokens, now, pc, local>>

\* send_password_reset_email(user): token = str(uuid.uuid4()), create the row,
\* then send_mail, re-raised when it fails
send_password_reset_email(w, user, tok, mail_ok) ==
    /\ pc[w] = "idle"
    /\ RowCount < MaxRows
    /\ ResetLookup(tok) = {}
    /\ resetTokens' = Append(resetTokens,
          [user |-> user, token |-> tok, created_at |-> now,
           expires_at |-> ResetExpiresAt(now), is_used |-> FALSE])
    /\ resp' = [resp EXCEPT ![w] =
          IF mail_ok
          THEN Returned("send_password_reset_email", tok, TRUE, "", user,
                        Len(resetTokens) + 1, FALSE)
          ELSE Raised("send_password_reset_email", tok, "send_mail failed")]
    /\ UNCHANGED <<users, emailTokens, now, pc, local>>

\* ------------------------------------------------------------ validating
\* mutant: the expiry tested before is_used
VerifyOutcome_ExpiredFirst(rows, table, t) ==
    IF rows = {} THEN "invalid"
    ELSE LET row == table[CHOOSE i \in rows : TRUE]
         IN  IF ~is_valid(row, t)
             THEN IF t >= row.expires_at THEN "expired" ELSE "used"
             ELSE "ok"

\* the branch verify_email_token / verify_password_reset_token takes on the
\* rows found for a value: DoesNotExist, then is_valid(), then is_used
VerifyOutcome(rows, table, t) ==
    IF rows = {} THEN "invalid"
    ELSE LET row == table[CHOOSE i \in rows : TRUE]
         IN  IF ~is_valid(row, t)
             THEN IF row.is_used THEN "used" ELSE "expired"
             ELSE "ok"

EmailMessage(outcome) ==
    CASE outcome = "invalid" -> "Invalid verification token."
      [] outcome = "used" -> "This verification link has already been used."
      [] outcome = "expired" -> "This verification link has expired."
      [] outcome = "ok" -> "Email verified successfully!"

ResetMessage(outcome) ==
    CASE outcome = "invalid" -> "Invalid password reset token."
      [] outcome = "used" -> "This password reset link has already been used."
      [] outcome = "expired" -> "This password reset link has expired."
      [] outcome = "ok" -> "Token is valid."

\* verification_token.is_used = True; verification_token.save(): the row is
\* written back from the object the handler holds
MarkUsed(i, snapshot) ==
    [emailTokens EXCEPT ![i] = [snapshot EXCEPT !.is_used = TRUE]]

\* user.email_verified = True; user.save(): User has no email_verified
\* column, so save() writes the row's columns back as they were read and the
\* flag lives on the returned object only
SaveUser(u) == [users EXCEPT ![u] = users[u]]

\* verify_email_token(token), served start to end
verify_email_token(w, v) ==
    /\ pc[w] = "idle"
    /\ LET rows == EmailLookup(v)
           outcome == VerifyOutcome(rows, emailTokens, now)
       IN  IF outcome = "ok"
           THEN LET i == CHOOSE j \in rows : TRUE
                IN  /\ emailTokens' = MarkUsed(i, emailTokens[i])
                    /\ users' = SaveUser(emailTokens[i].user)
                    /\ resp' = [resp EXCEPT ![w] =
                          Returned("verify_email_token", v, TRUE,
                                   EmailMessage(outcome), emailTokens[i].user,
                                   i, TRUE)]
           ELSE /\ resp' = [resp EXCEPT ![w] =
                      Returned("verify_email_token", v, FALSE,
                               EmailMessage(outcome), None, None, FALSE)]
                /\ UNCHANGED <<users, emailTokens>>
    /\ UNCHANGED <<resetTokens, now, pc, local>>

\* verify_password_reset_token(token): the row is returned, nothing is written
verify_password_reset_token(w, v) ==
    /\ pc[w] = "idle"
    /\ LET rows == ResetLookup(v)
           outcome == VerifyOutcome(rows, resetTokens, now)
       IN  IF outcome = "ok"
           THEN LET i == CHOOSE j \in rows : TRUE
                IN  resp' = [resp EXCEPT ![w] =
                       Returned("verify_password_reset_token", v, TRUE,
                                ResetMessage(outcome), resetTokens[i].user,
                                i, FALSE)]
           ELSE resp' = [resp EXCEPT ![w] =
                   Returned("verify_password_reset_token", v, FALSE,
                            ResetMessage(outcome), None, None, FALSE)]
    /\ UNCHANGED <<users, emailTokens, resetTokens, now, pc, local>>

\* the clock
Tick ==
    /\ now + ClockStep <= MaxTime
    /\ now' = now + ClockStep
    /\ UNCHANGED <<users, emailTokens, resetTokens, resp, pc, local>>

\* ------------------------------------------------ the token specification
NoRow == [user |-> None, code |-> None, token |-> None, created_at |-> 0,
          expires_at |-> 0, is_used |-> FALSE]
NoLocal == [idx |-> None, arg |-> None, snap |-> NoRow]

Init ==
    /\ users = RegisteredUsers
    /\ emailTokens = <<>>
    /\ resetTokens = <<>>
    /\ now = 0
    /\ resp = [w \in Workers |-> NoResp]
    /\ pc = [w \in Workers |-> "idle"]
    /\ local = [w \in Workers |-> NoLocal]

\* requests served one at a time, each handler start to end
Next ==
    \/ \E u \in DOMAIN users, c \in Values, t \in Values, m \in BOOLEAN :
          send_verification_email(1, u, c, t, m)
    \/ \E u \in DOMAIN users, t \in Uuids, m \in BOOLEAN :
          send_password_reset_email(1, u, t, m)
    \/ \E v \in Values : verify_email_token(1, v)
    \/ \E v \in Uuids : verify_password_reset_token(1, v)
    \/ Tick

Spec == Init /\ [][Next]_vars

\* ------------------------------------- two requests served at the same time
\* verify_email_token up to its first write: get(token=v), is_valid() and the
\* branch on the object read; a failure returns at once
verify_email_token_read(w, v) ==
    /\ pc[w] = "idle"
    /\ LET rows == EmailLookup(v)
           outcome == VerifyOutcome(rows, emailTokens, now)
       IN  IF outcome = "ok"
           THEN LET i == CHOOSE j \in rows : TRUE
                IN  /\ pc' = [pc EXCEPT ![w] = "mark"]
                    /\ local' = [local EXCEPT ![w] =
                          [idx |-> i, arg |-> v, snap |-> emailTokens[i]]]
                    /\ UNCHANGED resp
           ELSE /\ resp' = [resp EXCEPT ![w] =
                      Returned("verify_email_token", v, FALSE,
                               EmailMessage(outcome), None, None, FALSE)]
                /\ UNCHANGED <<pc, local>>
    /\ UNCHANGED <<users, emailTokens, resetTokens, now>>

\* verify_email_token from is_used = True on: save() of the object read, the
\* user's save(), the success return
verify_email_token_write(w) ==
    /\ pc[w] = "mark"
    /\ emailTokens' = MarkUsed(local[w].idx, local[w].snap)
    /\ users' = SaveUser(local[w].snap.user)
    /\ resp' = [resp EXCEPT ![w] =
          Returned("verify_email_token", local[w].arg, TRUE,
                   EmailMessage("ok"), local[w].snap.user, local[w].idx, TRUE)]
    /\ pc' = [pc EXCEPT ![w] = "idle"]
    /\ local' = [local EXCEPT ![w] = NoLocal]
    /\ UNCHANGED <<resetTokens, now>>

NextConc ==
    \/ \E w \in Workers, u \in DOMAIN users, c \in Values, t \in Values :
          send_verification_email(w, u, c, t, TRUE)
    \/ \E w \in Workers, u \in DOMAIN users, t \in Uuids :
          send_password_reset_email(w, u, t, TRUE)
    \/ \E w \in Workers, v \in Values : verify_email_token_read(w, v)
    \/ \E w \in Workers : verify_email_token_write(w)
    \/ \E w \in Workers, v \in Uuids : verify_password_reset_token(w, v)
    \/ Tick

SpecConc == Init /\ [][NextConc]_vars

\* ------------------------------------------------ registration and login
Usernames == {"alice", "bob"}
Emails == {AliceEmail, [AliceEmail EXCEPT !.domain = "EXAMPLE.COM"], BobEmail}
Passwords == {"pw1", "weak"}
\* firebase_uid is optional: NoUid stands for the None create() pops
NoUid == "<None>"
FirebaseUids == {NoUid, "uid1"}
RegistrationData ==
    [username : Usernames, email : Emails, password : Passwords,
     password2 : Passwords, firebase_uid : FirebaseUids]
NoData == [username |-> "", email |-> [local |-> "", domain |-> ""],
           password |-> "", password2 |-> "", firebase_uid |-> NoUid]

\* django.contrib.auth.password_validation.validate_password: the strength
\* policy is configured outside this code; "weak" is what it rejects
validate_password(p) == p # "weak"

Rows == DOMAIN users

\* UserRegistrationSerializer.validate_email: User.objects.filter(email=value)
\* .exists(), an exact match on the value as submitted
validate_email(value) ==
    IF \E i \in Rows : users[i].email = value
    THEN {<<"email", "A user with this email already exists.">>}
    ELSE {}

\* the unique validator ModelSerializer derives from AbstractUser.username
validate_username(value) ==
    IF \E i \in Rows : users[i].username = value
    THEN {<<"username", "A user with that username already exists.">>}
    ELSE {}

\* the password field's validators=[validate_password]
validate_password_field(value) ==
    IF validate_password(value) THEN {}
    ELSE {<<"password", "This password does not meet the policy.">>}

\* mutant: the passwords never compared
validate_Unchecked(attrs) == {}

\* UserRegistrationSerializer.validate: the two passwords match
validate(attrs) ==
    IF attrs.password # attrs.password2
    THEN {<<"password", "Password fields didn't match.">>}
    ELSE {}

\* serializer.is_valid(): every field is validated and the field errors are
\* collected; validate(attrs) runs only when no field failed
SerializerErrors(data) ==
    LET fields == validate_username(data.username)
                  \cup validate_email(data.email)
                  \cup validate_password_field(data.password)
    IN  IF fields # {} THEN fields ELSE validate(data)

\* mutant: email declared without unique=True
IntegrityError_EmailNotUnique(row) ==
    \E i \in Rows :
        \/ users[i].username = row.username
        \/ row.firebase_uid # NoUid /\ users[i].firebase_uid = row.firebase_uid

\* the INSERT of create_user under the table's constraints: username unique
\* (AbstractUser), email unique, firebase_uid unique where not null
IntegrityError(row) ==
    \E i \in Rows :
        \/ users[i].username = row.username
        \/ users[i].email = row.email
        \/ row.firebase_uid # NoUid /\ users[i].firebase_uid = row.firebase_uid

\* UserRegistrationSerializer.create: the row create_user inserts
create(validated_data) ==
    UserRow(validated_data.username, validated_data.email,
            validated_data.password, validated_data.firebase_uid)

\* case is history: what the request was, told from the store it met
NoHttp == [op |-> "none", status |-> 0, errors |-> {}, tokens |-> None,
           case |-> {}, raised |-> FALSE]

Http(op, status, errors, tokens, case) ==
    [op |-> op, status |-> status, errors |-> errors, tokens |-> tokens,
     case |-> case, raised |-> FALSE]

\* an exception no handler catches: Django answers 500
Unhandled(op, what, case) ==
    [op |-> op, status |-> 500, errors |-> {<<"exception", what>>},
     tokens |-> None, case |-> case, raised |-> TRUE]

\* what a registration request is, told from the store alone: its passwords
\* differ, its email as submitted is an account's, its normalized email is
\* an account's, a field of it fails its own validation
RequestFacts(data) ==
    (IF data.password # data.password2 THEN {"mismatch"} ELSE {})
    \cup (IF \E i \in Rows : users[i].email = data.email
          THEN {"email_claimed"} ELSE {})
    \cup (IF (\E i \in Rows : users[i].email = data.email)
              \/ (\E i \in Rows : users[i].username = data.username)
              \/ ~validate_password(data.password)
          THEN {"field_error"} ELSE {})

\* RegisterView.post from serializer.save() on: the insert, then the token
\* pair RefreshToken.for_user(user) of the new id
SaveAndRespond(w, data, facts) ==
    LET row == create(data)
    IN  IF IntegrityError(row)
        THEN /\ resp' = [resp EXCEPT ![w] =
                   Unhandled("register", "IntegrityError",
                             facts \cup
                             IF \E i \in Rows : users[i].email = row.email
                             THEN {"email_taken"} ELSE {})]
             /\ UNCHANGED users
        ELSE /\ users' = Append(users, row)
             /\ resp' = [resp EXCEPT ![w] =
                   Http("register", HTTP_201_CREATED, {}, Len(users) + 1,
                        facts)]

\* RegisterView.post, served start to end
Register(w, data) ==
    /\ pc[w] = "idle"
    /\ LET errors == SerializerErrors(data)
       IN  IF errors # {}
           THEN /\ resp' = [resp EXCEPT ![w] =
                      Http("register", HTTP_400_BAD_REQUEST, errors, None,
                           RequestFacts(data))]
                /\ UNCHANGED users
           ELSE SaveAndRespond(w, data, RequestFacts(data))
    /\ UNCHANGED <<emailTokens, resetTokens, now, pc, local>>

\* django.contrib.auth.authenticate with the default ModelBackend: the user
\* of that username, when the password checks and the user is active
authenticate(username, password) ==
    LET found == {i \in Rows : /\ users[i].username = username
                               /\ check_password(password, users[i].password)
                               /\ users[i].is_active}
    IN  IF found = {} THEN None ELSE CHOOSE i \in found : TRUE

InvalidCredentials == {<<"error", "Invalid email or password.">>}
AccountDisabled == {<<"error", "User account is disabled.">>}

\* mutant: DoesNotExist answered with a message of its own
LoginResponse_Enumerating(email, password) ==
    LET byEmail == {i \in Rows : users[i].email = email}
    IN  IF byEmail = {}
        THEN [status |-> HTTP_400_BAD_REQUEST,
              errors |-> {<<"error", "No account with this email.">>},
              tokens |-> None]
        ELSE LET user == authenticate(users[CHOOSE i \in byEmail : TRUE].username,
                                      password)
             IN  IF user = None
                 THEN [status |-> HTTP_400_BAD_REQUEST,
                       errors |-> InvalidCredentials, tokens |-> None]
                 ELSE [status |-> HTTP_200_OK, errors |-> {}, tokens |-> user]

\* LoginSerializer.validate and LoginView.post: status, body and token pair
LoginResponse(email, password) ==
    LET byEmail == {i \in Rows : users[i].email = email}
    IN  IF byEmail = {}
        THEN [status |-> HTTP_400_BAD_REQUEST, errors |-> InvalidCredentials,
              tokens |-> None]
        ELSE LET user == authenticate(users[CHOOSE i \in byEmail : TRUE].username,
                                      password)
             IN  IF user = None
                 THEN [status |-> HTTP_400_BAD_REQUEST,
                       errors |-> InvalidCredentials, tokens |-> None]
                 ELSE IF ~users[user].is_active
                 THEN [status |-> HTTP_400_BAD_REQUEST,
                       errors |-> AccountDisabled, tokens |-> None]
                 ELSE [status |-> HTTP_200_OK, errors |-> {}, tokens |-> user]

\* what a login attempt is, told from the store alone
LoginCase(email, password) ==
    LET byEmail == {i \in Rows : users[i].email = email}
    IN  IF byEmail = {} THEN "no_user"
        ELSE LET u == users[CHOOSE i \in byEmail : TRUE]
             IN  IF ~check_password(password, u.password) THEN "wrong_password"
                 ELSE IF ~u.is_active THEN "inactive" ELSE "good"

\* LoginView.post, served start to end
Login(w, email, password) ==
    /\ pc[w] = "idle"
    /\ LET r == LoginResponse(email, password)
       IN  resp' = [resp EXCEPT ![w] =
              Http("login", r.status, r.errors, r.tokens,
                   {LoginCase(email, password)})]
    /\ UNCHANGED <<users, emailTokens, resetTokens, now, pc, local>>

\* CustomUserAdmin: the admin form edits is_active
AdminSetActive(i, active) ==
    /\ users[i].is_active # active
    /\ users' = [users EXCEPT ![i].is_active = active]
    /\ UNCHANGED <<emailTokens, resetTokens, now, resp, pc, local>>

AuthLocal == [data |-> NoData, facts |-> {}]

InitAuth ==
    /\ users = <<>>
    /\ emailTokens = <<>>
    /\ resetTokens = <<>>
    /\ now = 0
    /\ resp = [w \in Workers |-> NoHttp]
    /\ pc = [w \in Workers |-> "idle"]
    /\ local = [w \in Workers |-> AuthLocal]

NextAuth ==
    \/ \E w \in Workers, d \in RegistrationData : Register(w, d)
    \/ \E w \in Workers, e \in Emails, p \in Passwords : Login(w, e, p)
    \/ \E i \in Rows, a \in BOOLEAN : AdminSetActive(i, a)

SpecAuth == InitAuth /\ [][NextAuth]_vars

\* ----------------------------------- two registrations at the same time
\* RegisterView.post up to serializer.is_valid(): a 400 at once when it fails
RegisterValidate(w, data) ==
    /\ pc[w] = "idle"
    /\ LET errors == SerializerErrors(data)
       IN  IF errors # {}
           THEN /\ resp' = [resp EXCEPT ![w] =
                      Http("register", HTTP_400_BAD_REQUEST, errors, None,
                           RequestFacts(data))]
                /\ UNCHANGED <<pc, local>>
           ELSE /\ pc' = [pc EXCEPT ![w] = "save"]
                /\ local' = [local EXCEPT ![w] =
                      [data |-> data, facts |-> RequestFacts(data)]]
                /\ UNCHANGED resp
    /\ UNCHANGED <<users, emailTokens, resetTokens, now>>

\* RegisterView.post from serializer.save() on
RegisterSave(w) ==
    /\ pc[w] = "save"
    /\ SaveAndRespond(w, local[w].data, local[w].facts)
    /\ pc' = [pc EXCEPT ![w] = "idle"]
    /\ local' = [local EXCEPT ![w] = AuthLocal]
    /\ UNCHANGED <<emailTokens, resetTokens, now>>

NextReg ==
    \/ \E w \in Workers, d \in RegistrationData : RegisterValidate(w, d)
    \/ \E w \in Workers : RegisterSave(w)

SpecReg == InitAuth /\ [][NextReg]_vars

\* ====================================================== the token claims
EmailUsedMsg == "This verification link has already been used."
EmailExpiredMsg == "This verification link has expired."
ResetUsedMsg == "This password reset link has already been used."
ResetExpiredMsg == "This password reset link has expired."

\* C1: a password-reset token value is validated successfully at most once:
\* of two calls of verify_password_reset_token with one value, served one
\* after the other, no more than one returns success.
C1_ResetTokenSingleUse ==
    \A w1, w2 \in Workers :
        (/\ w1 # w2
         /\ resp[w1].op = "verify_password_reset_token"
         /\ resp[w2].op = "verify_password_reset_token"
         /\ resp[w1].arg = resp[w2].arg)
        => ~(resp[w1].ok /\ resp[w2].ok)

\* C2: an email-verification token is validated successfully at most once in
\* any execution (no success is returned for a row already marked used), a
\* call on a used token answers 'already used', and is_used, once true,
\* stays true.
C2_EmailTokenSingleUse ==
    [][/\ \A w \in Workers :
            verify_email_token_write(w) => ~emailTokens[local[w].idx].is_used
       /\ \A w \in Workers, v \in Values :
            (verify_email_token_read(w, v)
               /\ \E i \in EmailLookup(v) : emailTokens[i].is_used)
            => (~resp'[w].ok /\ resp'[w].msg = EmailUsedMsg)
       /\ \A i \in DOMAIN emailTokens :
            emailTokens[i].is_used => emailTokens'[i].is_used]_vars

\* C3: of two requests that validate the same unused, unexpired
\* email-verification token at the same time, at most one returns success.
C3_AtMostOneSuccess ==
    \A w1, w2 \in Workers :
        (/\ w1 # w2
         /\ resp[w1].op = "verify_email_token"
         /\ resp[w2].op = "verify_email_token"
         /\ resp[w1].arg = resp[w2].arg)
        => ~(resp[w1].ok /\ resp[w2].ok)

\* a step in which worker 1 is answered by op
Answered(op) == resp'[1] # resp[1] /\ resp'[1].op = op

\* C4: the code send_verification_email issued, presented to
\* verify_email_token while its row is unused and unexpired, is found and
\* succeeds: the row is marked used and the owning user comes back verified.
C4_IssuedCodeVerifies ==
    [][\A i \in DOMAIN emailTokens :
          (/\ ~emailTokens[i].is_used
           /\ now < emailTokens[i].expires_at
           /\ verify_email_token(1, emailTokens[i].code))
          => (/\ resp'[1].ok
              /\ emailTokens'[i].is_used
              /\ resp'[1].user = emailTokens[i].user
              /\ resp'[1].verified)]_vars

\* C5: validating an unused token at now >= expires_at (equality included)
\* answers 'expired' and leaves the token tables and the users as they were;
\* a validation succeeds only at now < expires_at; expires_at is the creation
\* time + 15 minutes for email codes and + 60 minutes for reset tokens.
C5_ExpiryBoundary ==
    [][/\ Answered("verify_email_token") =>
             \A i \in EmailLookup(resp'[1].arg) :
                /\ (~emailTokens[i].is_used /\ now >= emailTokens[i].expires_at)
                   => (/\ ~resp'[1].ok
                       /\ resp'[1].msg = EmailExpiredMsg
                       /\ emailTokens' = emailTokens
                       /\ resetTokens' = resetTokens
                       /\ users' = users)
                /\ resp'[1].ok => now < emailTokens[i].expires_at
       /\ Answered("verify_password_reset_token") =>
             \A i \in ResetLookup(resp'[1].arg) :
                /\ (~resetTokens[i].is_used /\ now >= resetTokens[i].expires_at)
                   => (/\ ~resp'[1].ok
                       /\ resp'[1].msg = ResetExpiredMsg
                       /\ emailTokens' = emailTokens
                       /\ resetTokens' = resetTokens
                       /\ users' = users)
                /\ resp'[1].ok => now < resetTokens[i].expires_at
       /\ Len(emailTokens') > Len(emailTokens) =>
             LET row == emailTokens'[Len(emailTokens')]
             IN  row.created_at = now /\ row.expires_at = now + 15
       /\ Len(resetTokens') > Len(resetTokens) =>
             LET row == resetTokens'[Len(resetTokens')]
             IN  row.created_at = now /\ row.expires_at = now + 60
      ]_vars

\* C5 happens: an unused email token validated at exactly its expiry instant
\* was answered 'expired'
C5_Witness ==
    \E i \in DOMAIN emailTokens :
        /\ ~emailTokens[i].is_used
        /\ now = emailTokens[i].expires_at
        /\ resp[1].op = "verify_email_token"
        /\ resp[1].arg = emailTokens[i].token
        /\ resp[1].msg = EmailExpiredMsg

\* C6: the validator checks not-found, then used, then expired: a value with
\* no row answers 'invalid token', a row that is used answers 'already used'
\* also when it is past its expiry, and 'expired' is answered only for rows
\* whose is_used is false.
C6_CheckOrder ==
    [][/\ Answered("verify_email_token") =>
             LET found == EmailLookup(resp'[1].arg)
             IN  /\ found = {} =>
                       (/\ ~resp'[1].ok
                        /\ resp'[1].msg = "Invalid verification token.")
                 /\ \A i \in found :
                       /\ emailTokens[i].is_used =>
                             (~resp'[1].ok /\ resp'[1].msg = EmailUsedMsg)
                       /\ resp'[1].msg = EmailExpiredMsg
                             => ~emailTokens[i].is_used
                 /\ resp'[1].msg = EmailExpiredMsg => found # {}
       /\ Answered("verify_password_reset_token") =>
             LET found == ResetLookup(resp'[1].arg)
             IN  /\ found = {} =>
                       (/\ ~resp'[1].ok
                        /\ resp'[1].msg = "Invalid password reset token.")
                 /\ \A i \in found :
                       /\ resetTokens[i].is_used =>
                             (~resp'[1].ok /\ resp'[1].msg = ResetUsedMsg)
                       /\ resp'[1].msg = ResetExpiredMsg
                             => ~resetTokens[i].is_used
                 /\ resp'[1].msg = ResetExpiredMsg => found # {}
      ]_vars

\* C6 happens: a token both used and past its expiry was answered
\* 'already used'
C6_Witness ==
    \E i \in DOMAIN emailTokens :
        /\ emailTokens[i].is_used
        /\ now >= emailTokens[i].expires_at
        /\ resp[1].op = "verify_email_token"
        /\ resp[1].arg = emailTokens[i].token
        /\ resp[1].msg = EmailUsedMsg

\* C7: when send_mail fails, send_verification_email and
\* send_password_reset_email raise to the caller, return no token, add no
\* second row (no retry), and the row created before the dispatch is in the
\* store afterwards.
C7_MailFailureKeepsToken ==
    [][/\ (Answered("send_verification_email") /\ resp'[1].msg = "send_mail failed")
             => /\ resp'[1].raised /\ ~resp'[1].ok /\ resp'[1].row = None
                /\ Len(emailTokens') = Len(emailTokens) + 1
                /\ resetTokens' = resetTokens
                /\ LET row == emailTokens'[Len(emailTokens')]
                   IN  /\ row.code = resp'[1].arg
                       /\ row.user \in DOMAIN users
                       /\ ~row.is_used
       /\ (Answered("send_password_reset_email") /\ resp'[1].msg = "send_mail failed")
             => /\ resp'[1].raised /\ ~resp'[1].ok /\ resp'[1].row = None
                /\ Len(resetTokens') = Len(resetTokens) + 1
                /\ emailTokens' = emailTokens
                /\ LET row == resetTokens'[Len(resetTokens')]
                   IN  /\ row.token = resp'[1].arg
                       /\ row.user \in DOMAIN users
                       /\ ~row.is_used
       /\ \A op \in {"send_verification_email", "send_password_reset_email"} :
             (Answered(op) /\ resp'[1].msg # "send_mail failed")
             => (~resp'[1].raised /\ resp'[1].ok /\ resp'[1].row # None)
      ]_vars

\* C7 happens: a send raised and the row it had created is in the store
C7_Witness ==
    /\ resp[1].raised
    /\ resp[1].op = "send_password_reset_email"
    /\ \E i \in DOMAIN resetTokens : resetTokens[i].token = resp[1].arg

\* ===================================== the registration and login claims
MismatchError == <<"password", "Password fields didn't match.">>
DuplicateEmailError == <<"email", "A user with this email already exists.">>

\* a step that adds a user answers the worker that served it 201 with the
\* token pair of the new id
Created(w) ==
    /\ resp'[w].op = "register"
    /\ resp'[w].status = HTTP_201_CREATED
    /\ resp'[w].tokens = Len(users')

\* C8: a login with an email no user has and a login with an existing user's
\* email and a wrong password get the same response, status and error body,
\* and neither is issued a token pair.
C8_LoginDoesNotRevealEmail ==
    /\ \A w1, w2 \in Workers :
          (/\ resp[w1].op = "login" /\ "no_user" \in resp[w1].case
           /\ resp[w2].op = "login" /\ "wrong_password" \in resp[w2].case)
          => (/\ resp[w1].status = resp[w2].status
              /\ resp[w1].errors = resp[w2].errors
              /\ resp[w1].tokens = None
              /\ resp[w2].tokens = None)
    /\ \A e1, e2 \in Emails, p1, p2 \in Passwords :
          (/\ LoginCase(e1, p1) = "no_user"
           /\ LoginCase(e2, p2) = "wrong_password")
          => (/\ LoginResponse(e1, p1) = LoginResponse(e2, p2)
              /\ LoginResponse(e1, p1).tokens = None)

\* C8 happens: one worker was answered for an unknown email, the other for a
\* wrong password
C8_Witness ==
    /\ resp[1].op = "login" /\ "no_user" \in resp[1].case
    /\ resp[2].op = "login" /\ "wrong_password" \in resp[2].case

C10_MismatchAlwaysReported ==
    /\ [](\A w \in Workers :
            (resp[w].op = "register" /\ "mismatch" \in resp[w].case)
            => (/\ resp[w].status = HTTP_400_BAD_REQUEST
                /\ MismatchError \in resp[w].errors
                /\ resp[w].tokens = None))
    /\ [][\A w \in Workers :
            (resp'[w] # resp[w] /\ resp'[w].op = "register"
               /\ "mismatch" \in resp'[w].case)
            => users' = users]_vars

\* C10 as amended: every registration whose password and password2 differ
\* fails with HTTP 400 and validation errors, changes no user and returns no
\* token pair; the errors are the password-mismatch error whenever no field
\* of the request (username, email, password policy) fails its own
\* validation, and those fields' errors otherwise.
C10_MismatchRejected ==
    /\ [](\A w \in Workers :
            (resp[w].op = "register" /\ "mismatch" \in resp[w].case)
            => (/\ resp[w].status = HTTP_400_BAD_REQUEST
                /\ resp[w].errors # {}
                /\ resp[w].tokens = None
                /\ "field_error" \notin resp[w].case
                      => resp[w].errors = {MismatchError}
                /\ "field_error" \in resp[w].case
                      => MismatchError \notin resp[w].errors))
    /\ [][/\ \A w \in Workers :
               (resp'[w] # resp[w] /\ resp'[w].op = "register"
                  /\ "mismatch" \in resp'[w].case)
               => users' = users
          /\ Len(users') > Len(users) =>
                \E w \in Workers :
                   Created(w) /\ "mismatch" \notin resp'[w].case]_vars

\* C10 happens: a registration whose passwords differ was answered 400 with
\* the mismatch error
C10_Witness ==
    /\ resp[1].op = "register"
    /\ "mismatch" \in resp[1].case
    /\ resp[1].status = HTTP_400_BAD_REQUEST
    /\ resp[1].errors = {MismatchError}

====
